---- MODULE Spec2Model ----
(***************************************************************************)
(* make_network.ipynb: create_user_vectors, deduplicate and                *)
(* generate_similarity_network_vectorized.                                 *)
(*                                                                         *)
(* A dict is a sequence of <<key, value>> items in insertion order.  A     *)
(* vector is a sequence of fractions <<n, d>> (d > 0).  A threshold is a   *)
(* fraction <<p, q>> with p >= 0 and q > 0.  float64 arithmetic is exact   *)
(* rational arithmetic except where a computed similarity ties with the    *)
(* threshold it is compared to: there the rounding of the norm, of the     *)
(* division and of the dot product decides, and the pairs whose computed   *)
(* similarity lands below the exact value are the set lossy.               *)
(***************************************************************************)
EXTENDS Integers, Sequences, FiniteSets, TLC

MaxUsers == 3
lurker_threshold == 3
DefaultRuns == 5

Subreddits == 1 .. 2
PostCounts == {0, 1, 3}
RunsPool == 0 .. 3
Users == 1 .. MaxUsers

VARIABLES
    posts,            \* df: number of rows per (author_name, subreddit)
    pc,               \* position in the notebook
    error,            \* the exception raised, or "none"
    all_subreddits,   \* create_user_vectors: sorted vocabulary
    user_vectors,     \* the dict handed to deduplicate
    threshold,        \* deduplicate: threshold
    runs,             \* deduplicate: runs
    curr,             \* deduplicate: curr
    prev,             \* deduplicate: prev
    iteration,        \* deduplicate: iteration
    caller,           \* who called deduplicate
    call,             \* number of the deduplicate call in progress
    first_out,        \* what the first deduplicate call returned
    edge_threshold,   \* generate_similarity_network_vectorized: threshold
    edges,            \* lines of the output file
    lossy             \* pairs of rows whose float64 similarity is below the exact one

vars == <<posts, pc, error, all_subreddits, user_vectors, threshold, runs, curr,
          prev, iteration, caller, call, first_out, edge_threshold, edges, lossy>>

----------------------------------------------------------------------------
(* dicts and sequences *)

Keys(d) == {d[k][1] : k \in 1 .. Len(d)}

KeyList(d) == [k \in 1 .. Len(d) |-> d[k][1]]

Get(d, u) == d[CHOOSE k \in 1 .. Len(d) : d[k][1] = u][2]

RECURSIVE SumSeq(_)
SumSeq(s) == IF Len(s) = 0 THEN 0 ELSE Head(s) + SumSeq(Tail(s))

\* sorted(S) for a set of integers
SortedSeq(S) ==
    [k \in 1 .. Cardinality(S) |->
        CHOOSE x \in S : Cardinality({y \in S : y < x}) = k - 1]

----------------------------------------------------------------------------
(* create_user_vectors *)

RowAt(df, k) ==
    LET n == Cardinality(Subreddits)
        u == ((k - 1) \div n) + 1
        s == ((k - 1) % n) + 1
    IN  [author_name |-> u, subreddit |-> s, count |-> df[<<u, s>>]]

GroupBySize(df) ==
    SelectSeq([k \in 1 .. MaxUsers * Cardinality(Subreddits) |-> RowAt(df, k)],
              LAMBDA r : r.count > 0)

UserTotalPosts(rows, u) ==
    SumSeq([k \in 1 .. Len(rows) |->
               IF rows[k].author_name = u THEN rows[k].count ELSE 0])

KeepsUserStrict(total) == total > lurker_threshold

KeepsUser(total) == total >= lurker_threshold

ActiveUsers(rows) ==
    {u \in {rows[k].author_name : k \in 1 .. Len(rows)} :
        KeepsUser(UserTotalPosts(rows, u))}

\* the vocabulary taken from the rows of the kept users only
AllSubredditsOfKept(df) ==
    SortedSeq({s \in Subreddits :
                  \E u \in Users :
                     df[<<u, s>>] > 0 /\ KeepsUser(SumSeq([t \in Subreddits |-> df[<<u, t>>]]))})

\* sorted(df['subreddit'].unique())
AllSubreddits(df) ==
    SortedSeq({s \in Subreddits : \E u \in Users : df[<<u, s>>] > 0})

\* the dict the loop over the rows leaves: a key per author in row order,
\* np.zeros(len(all_subreddits)) with count / total written at each row's index
Coordinate(rows, user, sr, total) ==
    IF \E k \in 1 .. Len(rows) : rows[k].author_name = user /\ rows[k].subreddit = sr
    THEN LET k == CHOOSE k \in 1 .. Len(rows) :
                     rows[k].author_name = user /\ rows[k].subreddit = sr
         IN  <<rows[k].count, total>>
    ELSE <<0, 1>>

FillVectors(rows, subs, totals) ==
    LET authors == SortedSeq({rows[k].author_name : k \in 1 .. Len(rows)})
    IN  [n \in 1 .. Len(authors) |->
            <<authors[n],
              [i \in 1 .. Len(subs) |->
                  Coordinate(rows, authors[n], subs[i], totals[authors[n]])]>>]

CreateVectors(df) ==
    LET counts == GroupBySize(df)
        active == ActiveUsers(counts)
        totals == [u \in active |-> UserTotalPosts(counts, u)]
        kept == SelectSeq(counts, LAMBDA r : r.author_name \in active)
        subs == AllSubreddits(df)
    IN  [vectors |-> FillVectors(kept, subs, totals), subs |-> subs]

----------------------------------------------------------------------------
(* rows, norms and the similarity matrix *)

RECURSIVE Gcd(_, _)
Gcd(a, b) == IF b = 0 THEN a ELSE Gcd(b, a % b)

Lcm(a, b) == (a * b) \div Gcd(a, b)

RECURSIVE LcmOfDens(_)
LcmOfDens(v) == IF Len(v) = 0 THEN 1 ELSE Lcm(Head(v)[2], LcmOfDens(Tail(v)))

\* v times the least common denominator of its coordinates: a positive
\* multiple of v, which vecs / norms maps to the same unit row
Scaled(v) == [k \in 1 .. Len(v) |-> v[k][1] * (LcmOfDens(v) \div v[k][2])]

Dot(x, y) == SumSeq([k \in 1 .. Len(x) |-> x[k] * y[k]])

\* norms[norms == 0] = 1.0 leaves a zero row zero
ZeroNorm(v) == Dot(Scaled(v), Scaled(v)) = 0

\* sign of (exact cosine similarity of a and b) - p/q, decided on squares
CompareSim(a, b, thr) ==
    LET x == Scaled(a)
        y == Scaled(b)
        lhs == IF ZeroNorm(a) \/ ZeroNorm(b)
               THEN 0
               ELSE Dot(x, y) * Dot(x, y) * thr[2] * thr[2]
        rhs == IF ZeroNorm(a) \/ ZeroNorm(b)
               THEN thr[1]
               ELSE thr[1] * thr[1] * Dot(x, x) * Dot(y, y)
    IN  IF lhs > rhs THEN 1 ELSE IF lhs = rhs THEN 0 ELSE -1

OneHot(v) ==
    /\ Cardinality({k \in 1 .. Len(v) : v[k][1] # 0}) = 1
    /\ \A k \in 1 .. Len(v) : v[k][1] % v[k][2] = 0

\* float64 computes the similarity of a and b without rounding error
ExactFloat(a, b) ==
    \/ ZeroNorm(a) \/ ZeroNorm(b)
    \/ Dot(Scaled(a), Scaled(b)) = 0
    \/ OneHot(a) /\ OneHot(b)

\* the value float64 holds for n / d depends on the quotient only
Canon(v) ==
    [k \in 1 .. Len(v) |->
        IF v[k][1] = 0 THEN <<0, 1>>
        ELSE <<v[k][1] \div Gcd(v[k][1], v[k][2]), v[k][2] \div Gcd(v[k][1], v[k][2])>>]

\* the two rows of a matrix entry: equal rows give equal float64 dot products
RowPair(a, b) == {Canon(a), Canon(b)}

\* the entries of the similarity matrix of d whose rounding a comparison with
\* one of the thresholds thrs can see: computed with rounding error, and
\* exactly equal to the threshold
TiedRowPairs(d, thrs) ==
    {RowPair(d[ij[1]][2], d[ij[2]][2]) : ij \in
        {ij \in (1 .. Len(d)) \X (1 .. Len(d)) :
            /\ ij[1] < ij[2]
            /\ ~ExactFloat(d[ij[1]][2], d[ij[2]][2])
            /\ \E thr \in thrs : CompareSim(d[ij[1]][2], d[ij[2]][2], thr) = 0}}

Roundings(d, thrs) == SUBSET TiedRowPairs(d, thrs)

RoundedBelow(a, b) == RowPair(a, b) \in lossy

\* sim_matrix[i, j] >= thr for rows a and b
SimAtLeast(a, b, thr) ==
    LET c == CompareSim(a, b, thr)
    IN  c = 1 \/ (c = 0 /\ ~RoundedBelow(a, b))

----------------------------------------------------------------------------
(* deduplicate *)

LoopCondOffByOne(len, prv, iter, rns) == len # prv /\ iter <= rns

LoopCond(len, prv, iter, rns) == len # prv /\ iter < rns

\* the inner loop leaving at its first duplicate
RECURSIVE InnerScanBreak(_, _, _, _, _)
InnerScanBreak(d, i, j, todrop, thr) ==
    IF j > Len(d) THEN todrop
    ELSE IF d[j][1] \in todrop THEN InnerScanBreak(d, i, j + 1, todrop, thr)
    ELSE IF SimAtLeast(d[i][2], d[j][2], thr)
         THEN todrop \cup {d[j][1]}
         ELSE InnerScanBreak(d, i, j + 1, todrop, thr)

RECURSIVE InnerScan(_, _, _, _, _)
InnerScan(d, i, j, todrop, thr) ==
    IF j > Len(d) THEN todrop
    ELSE IF d[j][1] \in todrop THEN InnerScan(d, i, j + 1, todrop, thr)
    ELSE IF SimAtLeast(d[i][2], d[j][2], thr)
         THEN InnerScan(d, i, j + 1, todrop \cup {d[j][1]}, thr)
         ELSE InnerScan(d, i, j + 1, todrop, thr)

RECURSIVE OuterScan(_, _, _, _)
OuterScan(d, i, todrop, thr) ==
    IF i > Len(d) THEN todrop
    ELSE IF d[i][1] \in todrop THEN OuterScan(d, i + 1, todrop, thr)
    ELSE OuterScan(d, i + 1, InnerScan(d, i, i + 1, todrop, thr), thr)

\* the scan with only the first user as anchor
ToDropFirstAnchor(d, thr) ==
    IF Len(d) = 0 THEN {} ELSE InnerScan(d, 1, 2, {}, thr)

ToDrop(d, thr) == OuterScan(d, 1, {}, thr)

\* the comprehension run over vectors.items() instead of curr.items()
SurvivorsOfInput(cur, todrop) == SelectSeq(user_vectors, LAMBDA it : it[1] \notin todrop)

Survivors(cur, todrop) == SelectSeq(cur, LAMBDA it : it[1] \notin todrop)

----------------------------------------------------------------------------
(* generate_similarity_network_vectorized *)

\* np.triu_indices_from(similarity_matrix, k=0)
TriuWithDiagonal(n) ==
    LET all == [k \in 1 .. n * n |-> <<((k - 1) \div n) + 1, ((k - 1) % n) + 1>>]
    IN  SelectSeq(all, LAMBDA ij : ij[1] <= ij[2])

\* np.triu_indices_from(similarity_matrix, k=1), row by row
TriuIndices(n) ==
    LET all == [k \in 1 .. n * n |-> <<((k - 1) \div n) + 1, ((k - 1) % n) + 1>>]
    IN  SelectSeq(all, LAMBDA ij : ij[1] < ij[2])

EdgeTest(a, b, thr) == SimAtLeast(a, b, thr)

EdgeList(d, thr) ==
    LET idx == TriuIndices(Len(d))
        hit == SelectSeq(idx, LAMBDA ij : EdgeTest(d[ij[1]][2], d[ij[2]][2], thr))
    IN  [k \in 1 .. Len(hit) |-> <<d[hit[k][1]][1], d[hit[k][2]][1]>>]

----------------------------------------------------------------------------
(* the notebook: create_user_vectors, then                                 *)
(* generate_similarity_network_vectorized(user_vectors, threshold)         *)

EdgeThresholds == {<<19, 20>>, <<1, 10>>, <<1, 2>>, <<1, 1>>}

NoPosts == [c \in Users \X Subreddits |-> 0]

Init ==
    /\ posts \in [Users \X Subreddits -> PostCounts]
    /\ edge_threshold = <<0, 1>>
    /\ \E d \in {CreateVectors(posts).vectors} :
          lossy \in Roundings(d, EdgeThresholds \cup {<<1, 1>>})
    /\ pc = "create"
    /\ error = "none"
    /\ all_subreddits = <<>>
    /\ user_vectors = <<>>
    /\ threshold = <<1, 1>>
    /\ runs = DefaultRuns
    /\ curr = <<>>
    /\ prev = -1
    /\ iteration = 0
    /\ caller = "generate"
    /\ call = 0
    /\ first_out = <<>>
    /\ edges = <<>>

\* create_user_vectors(df): next(iter(user_vectors.values())) raises
\* StopIteration on an empty dict, and the except clause re-raises it
CreateUserVectors ==
    /\ pc = "create"
    /\ LET r == CreateVectors(posts)
       IN  IF Len(r.vectors) = 0
           THEN /\ pc' = "raised"
                /\ error' = "StopIteration"
                /\ UNCHANGED <<user_vectors, all_subreddits>>
           ELSE /\ pc' = "created"
                /\ user_vectors' = r.vectors
                /\ all_subreddits' = r.subs
                /\ error' = error
    /\ UNCHANGED <<posts, threshold, runs, curr, prev, iteration, caller, call,
                   first_out, edge_threshold, edges, lossy>>

\* generate_similarity_network_vectorized calls deduplicate(user_vectors_2, 1)
GenerateCall ==
    /\ pc = "created"
    /\ pc' = "dedup"
    /\ threshold' = <<1, 1>>
    /\ runs' = DefaultRuns
    /\ curr' = user_vectors
    /\ prev' = -1
    /\ iteration' = 0
    /\ call' = 1
    /\ UNCHANGED <<posts, error, all_subreddits, user_vectors, caller, first_out,
                   edge_threshold, edges, lossy>>

\* one pass of the while loop of deduplicate
DedupRound ==
    /\ pc = "dedup"
    /\ LoopCond(Len(curr), prev, iteration, runs)
    /\ Len(curr) > 0
    /\ prev' = Len(curr)
    /\ curr' = Survivors(curr, ToDrop(curr, threshold))
    /\ iteration' = iteration + 1
    /\ UNCHANGED <<posts, pc, error, all_subreddits, user_vectors, threshold, runs,
                   caller, call, first_out, edge_threshold, edges, lossy>>

\* np.array([]) has one axis, so np.linalg.norm(vecs, axis=1) raises AxisError
DedupAxisError ==
    /\ pc = "dedup"
    /\ LoopCond(Len(curr), prev, iteration, runs)
    /\ Len(curr) = 0
    /\ prev' = Len(curr)
    /\ pc' = "raised"
    /\ error' = "AxisError"
    /\ UNCHANGED <<posts, all_subreddits, user_vectors, threshold, runs, curr,
                   iteration, caller, call, first_out, edge_threshold, edges, lossy>>

DedupReturn ==
    /\ pc = "dedup"
    /\ ~LoopCond(Len(curr), prev, iteration, runs)
    /\ pc' = IF caller = "generate" THEN "similarity" ELSE "returned"
    /\ UNCHANGED <<posts, error, all_subreddits, user_vectors, threshold, runs, curr,
                   prev, iteration, caller, call, first_out, edge_threshold, edges,
                   lossy>>

\* the rest of generate_similarity_network_vectorized: matrix, scan, file.
\* The threshold argument is first read by the scan.
WriteEdges ==
    /\ pc = "similarity"
    /\ edge_threshold' \in EdgeThresholds
    /\ edges' = EdgeList(curr, edge_threshold')
    /\ pc' = "written"
    /\ UNCHANGED <<posts, error, all_subreddits, user_vectors, threshold, runs, curr,
                   prev, iteration, caller, call, first_out, lossy>>

Next ==
    \/ CreateUserVectors
    \/ GenerateCall
    \/ DedupRound
    \/ DedupReturn
    \/ WriteEdges

Spec == Init /\ [][Next]_vars

----------------------------------------------------------------------------
(* deduplicate(vectors, threshold, runs) on its own, then on its own output *)

VecPool ==
    { << <<0, 1>>, <<0, 1>> >>,
      << <<1, 1>>, <<0, 1>> >>,
      << <<0, 1>>, <<1, 1>> >>,
      << <<1, 2>>, <<1, 2>> >>,
      << <<3, 1>>, <<0, 1>> >> }

DedupThresholds == {<<0, 1>>, <<1, 2>>, <<1, 1>>}

InitDedup ==
    /\ \E n \in 0 .. MaxUsers :
          \E vs \in [1 .. n -> VecPool] :
             user_vectors = [k \in 1 .. n |-> <<k, vs[k]>>]
    /\ threshold \in DedupThresholds
    /\ runs \in RunsPool
    /\ lossy \in Roundings(user_vectors, {threshold})
    /\ curr = user_vectors
    /\ prev = -1
    /\ iteration = 0
    /\ pc = "dedup"
    /\ error = "none"
    /\ caller = "harness"
    /\ call = 1
    /\ first_out = <<>>
    /\ posts = NoPosts
    /\ all_subreddits = <<>>
    /\ edge_threshold = <<0, 1>>
    /\ edges = <<>>

\* deduplicate(out, threshold, runs) with out the dict the first call returned
Reapply ==
    /\ pc = "returned"
    /\ call = 1
    /\ first_out' = curr
    /\ call' = 2
    /\ prev' = -1
    /\ iteration' = 0
    /\ pc' = "dedup"
    /\ UNCHANGED <<posts, error, all_subreddits, user_vectors, threshold, runs, curr,
                   caller, edge_threshold, edges, lossy>>

NextDedup ==
    \/ DedupRound
    \/ DedupAxisError
    \/ DedupReturn
    \/ Reapply

SpecDedup == InitDedup /\ [][NextDedup]_vars

----------------------------------------------------------------------------
(* properties *)

Pos(d, u) == CHOOSE k \in 1 .. Len(d) : d[k][1] = u

\* the dict the deduplicate call in progress was given
CallInput == IF call = 2 THEN first_out ELSE user_vectors

Duplicates(d, a, b) == SimAtLeast(Get(d, a), Get(d, b), threshold)

HasDupPair(d) == \E a \in Keys(d), b \in Keys(d) : a # b /\ Duplicates(d, a, b)

Parallel(a, b) ==
    /\ ~ZeroNorm(a)
    /\ ~ZeroNorm(b)
    /\ Dot(Scaled(a), Scaled(b)) * Dot(Scaled(a), Scaled(b))
         = Dot(Scaled(a), Scaled(a)) * Dot(Scaled(b), Scaled(b))

AllIdentical(d) ==
    \A i \in 1 .. Len(d), j \in 1 .. Len(d) : Canon(d[i][2]) = Canon(d[j][2])

TotalOf(u) == SumSeq([s \in Subreddits |-> posts[<<u, s>>]])

Vocabulary == {s \in Subreddits : \E u \in Users : posts[<<u, s>>] > 0}

\* C1: deduplicate applied to its own output, with the same threshold and
\* runs >= 1, returns the same user set: the second call removes no user.
C1_Idempotent ==
    (pc = "returned" /\ call = 2 /\ runs >= 1) => Keys(curr) = Keys(first_out)

C1_Witness ==
    /\ pc = "returned"
    /\ call = 2
    /\ runs >= 1
    /\ Len(first_out) < Len(user_vectors)
    /\ Len(first_out) >= 2

\* C2: every round ends with a subset of the users it started with, so the
\* count never grows from round to round, and the working set is always a
\* subset of the input user set with at most the input's count.
C2_Shrinks ==
    /\ [](Keys(curr) \subseteq Keys(user_vectors) /\ Len(curr) <= Len(user_vectors))
    /\ [][pc = "dedup" => (Keys(curr') \subseteq Keys(curr) /\ Len(curr') <= Len(curr))]_vars

C2_Witness ==
    /\ pc = "dedup"
    /\ iteration >= 1
    /\ Len(curr) < prev
    /\ Len(curr) >= 2

ScenarioABC ==
    << <<1, << <<1, 1>>, <<0, 1>> >> >>,
       <<2, << <<1, 2>>, <<1, 2>> >> >>,
       <<3, << <<1, 1>>, <<0, 1>> >> >> >>

\* A posts 3 times in subreddit 1, B 3 times in each subreddit, C like A
ScenarioPosts ==
    [c \in Users \X Subreddits |->
        IF c[1] = 2 \/ (c[1] \in {1, 3} /\ c[2] = 1) THEN 3 ELSE 0]

\* C4: a user is absent from the output exactly when an earlier user of the
\* input that is in the output is similar to it at the threshold; and when all
\* (non-zero) vectors are identical only the first user remains; for A, B, C
\* with threshold 1.0 the output is {A, B}.
C4_FirstOfGroupKept ==
    (pc = "returned" /\ call = 1 /\ runs >= 1) =>
        /\ \A u \in Keys(user_vectors) :
              u \notin Keys(curr)
                <=> \E w \in Keys(curr) :
                       /\ Pos(user_vectors, w) < Pos(user_vectors, u)
                       /\ Duplicates(user_vectors, w, u)
        /\ (AllIdentical(user_vectors) /\ ~ZeroNorm(user_vectors[1][2]))
              => KeyList(curr) = <<user_vectors[1][1]>>
        /\ (user_vectors = ScenarioABC /\ threshold = <<1, 1>>) => Keys(curr) = {1, 2}

\* C5: when no user reaches the minimum activity, nothing raises.
C5_EmptyIsNoError ==
    (\A u \in Users : TotalOf(u) < 3) => error = "none"

\* C6: each returned vector has one coordinate per distinct subreddit of the
\* whole input in sorted order, the coordinate of subreddit s is the user's
\* posts in s over the user's total, zero where the user never posted, and
\* the coordinates sum to 1.
C6_Fractions ==
    pc = "created" =>
        /\ Len(all_subreddits) = Cardinality(Vocabulary)
        /\ \A i \in 1 .. Len(all_subreddits) :
              /\ all_subreddits[i] \in Vocabulary
              /\ \A j \in 1 .. Len(all_subreddits) :
                    i < j => all_subreddits[i] < all_subreddits[j]
        /\ \A n \in 1 .. Len(user_vectors) :
              LET u == user_vectors[n][1]
                  v == user_vectors[n][2]
              IN  /\ Len(v) = Len(all_subreddits)
                  /\ \A i \in 1 .. Len(v) :
                        /\ v[i][2] > 0
                        /\ v[i][1] * TotalOf(u) = posts[<<u, all_subreddits[i]>>] * v[i][2]
                        /\ posts[<<u, all_subreddits[i]>>] = 0 => v[i][1] = 0
                  /\ SumSeq(Scaled(v)) = LcmOfDens(v)

C6_Witness ==
    /\ pc = "created"
    /\ Len(all_subreddits) = 2
    /\ \E n \in 1 .. Len(user_vectors) : user_vectors[n][2][1][1] = 0
    /\ \E n \in 1 .. Len(user_vectors) :
          user_vectors[n][2][1][1] # 0 /\ user_vectors[n][2][2][1] # 0
    /\ Len(user_vectors) < Cardinality({u \in Users : TotalOf(u) > 0})

\* C7: the keys of the returned map are exactly the users with at least 3
\* posts in total; users with 1 or 2 posts have no vector.
C7_LurkersDropped ==
    pc = "created" => Keys(user_vectors) = {u \in Users : TotalOf(u) >= 3}

C7_Witness ==
    /\ pc = "created"
    /\ \E u \in Keys(user_vectors) : TotalOf(u) = 3
    /\ \E u \in Users : TotalOf(u) = 2 /\ u \notin Keys(user_vectors)
    /\ \E u \in Users : TotalOf(u) = 1 /\ u \notin Keys(user_vectors)

\* C8: no edge joins two users whose vectors are parallel, and when all input
\* vectors are identical one user survives and no edge is written; for A, B, C
\* with edge threshold 0.95 no edge is written.
C8_NoParallelEdge ==
    pc = "written" =>
        /\ \A k \in 1 .. Len(edges) :
              ~Parallel(Get(user_vectors, edges[k][1]), Get(user_vectors, edges[k][2]))
        /\ AllIdentical(user_vectors) => (Len(curr) = 1 /\ Len(edges) = 0)
        /\ (posts = ScenarioPosts /\ edge_threshold = <<19, 20>>) => Len(edges) = 0

\* C9: deduplicate runs at most runs rounds and never hangs in its loop; it
\* runs a round whenever runs >= 1; it returns before the cap only after a
\* round that removed nobody, and such a round is always the last; with
\* runs = 0 it returns its input unchanged.
C9_Terminates ==
    /\ iteration <= runs
    /\ pc = "dedup" => ENABLED NextDedup
    /\ (pc = "dedup" /\ iteration >= 1 /\ Len(curr) = prev) => ~ENABLED DedupRound
    /\ pc = "returned" =>
          /\ runs >= 1 => iteration >= 1
          /\ iteration < runs => Len(curr) = prev
          /\ runs = 0 => (iteration = 0 /\ curr = CallInput)

C9_Witness ==
    /\ pc = "returned"
    /\ call = 1
    /\ runs = 3
    /\ iteration = 2
    /\ Len(curr) < Len(user_vectors)

\* C10: after the first round no two surviving users are similar at the
\* threshold, whatever the threshold; so the loop runs one round when the
\* input has no duplicate pair and two otherwise (runs >= 2), never three.
C10_OneRoundFixpoint ==
    /\ (pc = "dedup" /\ iteration >= 1) => ~HasDupPair(curr)
    /\ pc = "returned" =>
          /\ iteration <= 2
          /\ runs >= 2 => iteration = (IF HasDupPair(CallInput) THEN 2 ELSE 1)

C10_Witness ==
    /\ pc = "returned"
    /\ call = 1
    /\ runs = 3
    /\ iteration = 2
    /\ threshold = <<1, 2>>
    /\ Len(curr) >= 2

====
